---------------------------- MODULE Spec2Model ----------------------------
(* Streaks: Overload (src/server.js): the daily rollover and streak engine, *)
(* the hopper mutation, the serialized save chain and the API handlers.     *)
(*                                                                          *)
(* Numbers: a JavaScript number n is held as the integer n * Resolution     *)
(* (one model unit is 1e-7), so that amounts finer than roundTo's six       *)
(* digits exist. Day keys "YYYY-MM-DD" are held as <<y, m, d>>; comparing   *)
(* two such strings is comparing the triples lexicographically. Millisecond *)
(* timestamps (createdAt, updatedAt, lastSecuredAt) are left out.           *)
EXTENDS Integers, Sequences, FiniteSets, TLC

VARIABLES
  now,        \* the wall clock: the number of the current local day
  State,      \* STATE: [backgroundUrl, tasks]
  saveChain,  \* the promise saveChain holds: a job of jobs, 0 for Promise.resolve()
  jobs,       \* the promises queueSave returned, in the order of the calls
  writeLog,   \* the writes saveStateToDisk began and ended, in order
  tmp,        \* the file DATA_PATH + '.tmp'
  disk,       \* the file DATA_PATH
  mainPc,     \* where main() stands
  mainWait,   \* the job main() awaits
  lastDayKey, \* the ticker's lastDayKey
  reqs,       \* the handleApi calls in flight
  response,   \* the last response sent
  securedOn,  \* per task id, the day keys trySecureToday secured
  resecured,  \* whether a task was secured on a day key it was secured on before
  arrived,    \* requests accepted so far
  moves,      \* clock changes so far
  limits,     \* the run's bounds: requests accepted, clock changes
  probe       \* the stand-alone rollover pass: its input and results

vars == <<now, State, saveChain, jobs, writeLog, tmp, disk, mainPc, mainWait,
          lastDayKey, reqs, response, securedOn, resecured, arrived, moves,
          limits, probe>>

----------------------------------------------------------------------------
(* Numbers *)

ROUND_DIGITS == 6
Resolution == 10 ^ (ROUND_DIGITS + 1)
DAILY_THRESHOLD == Resolution
EpsInv == 10 ^ 9

Max(a, b) == IF a >= b THEN a ELSE b

\* Math.round((n + Number.EPSILON) * f) / f with f = 10 ** digits: to the
\* nearest multiple of 1e-6, a half going up.
roundTo(n) ==
  LET step == Resolution \div (10 ^ ROUND_DIGITS)
  IN  ((n + step \div 2) \div step) * step

\* hopper >= DAILY_THRESHOLD - EPS, with EPS = 1 / EpsInv: for an integer x,
\* x <= Resolution / EpsInv exactly when x <= the quotient rounded down.
ReachesThreshold(hopper) ==
  DAILY_THRESHOLD - hopper <= Resolution \div EpsInv

----------------------------------------------------------------------------
(* Day keys *)

\* Days since 1970-01-01 of a civil date with m in 1..12 (any d).
DaysFromCivil(y, m, d) ==
  LET yy  == IF m <= 2 THEN y - 1 ELSE y
      era == yy \div 400
      yoe == yy - era * 400
      mp  == (m + 9) % 12
      doy == (153 * mp + 2) \div 5 + d - 1
      doe == yoe * 365 + yoe \div 4 - yoe \div 100 + doy
  IN  era * 146097 + doe - 719468

\* Date.UTC(y, mo - 1, da) / 86400000: a month outside 1..12 carries into
\* the year, a day outside the month carries into the following days.
DateUTC(y, mo, da) ==
  LET mi == mo - 1
  IN  DaysFromCivil(y + mi \div 12, (mi % 12) + 1, 1) + (da - 1)

\* The key of the UTC date that is n days after 1970-01-01.
dateKeyFromUTCDate(n) ==
  LET z   == n + 719468
      era == z \div 146097
      doe == z - era * 146097
      yoe == (doe - doe \div 1460 + doe \div 36524 - doe \div 146096) \div 365
      doy == doe - (365 * yoe + yoe \div 4 - yoe \div 100)
      mp  == (5 * doy + 2) \div 153
      d   == doy - (153 * mp + 2) \div 5 + 1
      m   == IF mp < 10 THEN mp + 3 ELSE mp - 9
      y   == yoe + era * 400 + (IF m <= 2 THEN 1 ELSE 0)
  IN  <<y, m, d>>

\* /^\d{4}-\d{2}-\d{2}$/ on a string; anything else is held as <<>>.
WellFormed(key) ==
  /\ Len(key) = 3
  /\ key[1] \in 0..9999 /\ key[2] \in 0..99 /\ key[3] \in 0..99

\* The local date of the clock, which holds the local day's number.
localDateKey == dateKeyFromUTCDate(now)

dayNumberUTC(key) ==
  IF ~WellFormed(key) THEN now ELSE DateUTC(key[1], key[2], key[3])

dayDiff(fromKey, toKey) == dayNumberUTC(toKey) - dayNumberUTC(fromKey)

addDaysKey(key, days) ==
  IF ~WellFormed(key) THEN localDateKey
  ELSE dateKeyFromUTCDate(DateUTC(key[1], key[2], key[3]) + days)

\* a > b on two "YYYY-MM-DD" strings.
KeyGreater(a, b) ==
  \/ a[1] > b[1]
  \/ a[1] = b[1] /\ a[2] > b[2]
  \/ a[1] = b[1] /\ a[2] = b[2] /\ a[3] > b[3]

----------------------------------------------------------------------------
(* Securing rule and rollover engine *)

\* The securing rule without task.streak += 1.
trySecureKeepsStreak(task, reason) ==
  IF task.securedToday THEN [task |-> task, secured |-> FALSE]
  ELSE IF ReachesThreshold(task.hopper)
       THEN [task |-> [task EXCEPT !.securedToday = TRUE,
                                   !.lastSecuredReason = reason],
             secured |-> TRUE]
       ELSE [task |-> task, secured |-> FALSE]

\* The securing rule without its check of task.securedToday.
trySecureAgain(task, reason) ==
  IF ReachesThreshold(task.hopper)
  THEN [task |-> [task EXCEPT !.securedToday = TRUE,
                              !.streak = @ + 1,
                              !.lastSecuredReason = reason],
        secured |-> TRUE]
  ELSE [task |-> task, secured |-> FALSE]

\* trySecureToday(task, reason): the task after the call, and what it returns.
trySecureToday(task, reason) ==
  IF task.securedToday THEN [task |-> task, secured |-> FALSE]
  ELSE IF ReachesThreshold(task.hopper)
       THEN [task |-> [task EXCEPT !.securedToday = TRUE,
                                   !.streak = @ + 1,
                                   !.lastSecuredReason = reason],
             secured |-> TRUE]
       ELSE [task |-> task, secured |-> FALSE]

\* The loop body with the decay the header comment describes (hopper * 0.9).
RollOneDayMultiplicative(task) ==
  LET broken  == IF ~task.securedToday /\ task.streak # 0
                 THEN [task EXCEPT !.streak = 0] ELSE task
      decayed == [broken EXCEPT !.hopper = Max(0, roundTo((@ * 9) \div 10))]
      moved   == [decayed EXCEPT !.dayKey = addDaysKey(@, 1),
                                 !.securedToday = FALSE]
  IN  trySecureToday(moved, "rollover").task

\* The loop body without the end-of-day check.
RollOneDayNoBreak(task) ==
  LET decayed == [task EXCEPT !.hopper = Max(0, @ - DAILY_THRESHOLD)]
      moved   == [decayed EXCEPT !.dayKey = addDaysKey(@, 1),
                                 !.securedToday = FALSE]
  IN  trySecureToday(moved, "rollover").task

\* The loop body with the auto-secure made on the hopper before its decay.
RollOneDaySecuresBeforeDecay(task) ==
  LET broken  == IF ~task.securedToday /\ task.streak # 0
                 THEN [task EXCEPT !.streak = 0] ELSE task
      moved   == [broken EXCEPT !.dayKey = addDaysKey(@, 1),
                                !.securedToday = FALSE]
      secured == trySecureToday(moved, "rollover").task
  IN  [secured EXCEPT !.hopper = Max(0, @ - DAILY_THRESHOLD)]

\* One iteration of the loop of processTaskToToday.
RollOneDay(task) ==
  LET broken  == IF ~task.securedToday /\ task.streak # 0
                 THEN [task EXCEPT !.streak = 0] ELSE task
      decayed == [broken EXCEPT !.hopper = Max(0, @ - DAILY_THRESHOLD)]
      moved   == [decayed EXCEPT !.dayKey = addDaysKey(@, 1),
                                 !.securedToday = FALSE]
  IN  trySecureToday(moved, "rollover").task

\* The loop of processTaskToToday, n iterations from a task on: the task it
\* leaves, and the day keys on which trySecureToday(task, 'rollover') returned
\* true. RollNext takes the task one iteration has left.
RECURSIVE RollDays(_, _, _)
RECURSIVE RollNext(_, _, _)
RollDays(task, n, keys) ==
  IF n <= 0 THEN [task |-> task, changed |-> TRUE, secured |-> keys]
  ELSE RollNext(RollOneDay(task), n - 1, keys)
RollNext(task, n, keys) ==
  RollDays(task, n, IF task.securedToday THEN Append(keys, task.dayKey)
                    ELSE keys)

\* The number of iterations the loop makes for a difference of diff days.
LoopCountPlusOne(diff) == diff + 1
LoopCount(diff) == diff

\* if (typeof task.dayKey !== 'string' || !/^\d{4}-\d{2}-\d{2}$/.test(...)):
\* the task, and the value of changed.
Repair(task, todayKey) ==
  IF ~WellFormed(task.dayKey)
  THEN [task |-> [task EXCEPT !.dayKey = todayKey, !.securedToday = FALSE],
        changed |-> TRUE]
  ELSE [task |-> task, changed |-> FALSE]

\* processTaskToToday without the clamp of a dayKey ahead of today.
NoClamp(r, todayKey) == r

\* The clamp without task.securedToday = false.
ClampKeepsSecured(r, todayKey) ==
  IF KeyGreater(r.task.dayKey, todayKey)
  THEN [task |-> [r.task EXCEPT !.dayKey = todayKey], changed |-> TRUE]
  ELSE r

\* if (task.dayKey > todayKey)
Clamp(r, todayKey) ==
  IF KeyGreater(r.task.dayKey, todayKey)
  THEN [task |-> [r.task EXCEPT !.dayKey = todayKey, !.securedToday = FALSE],
        changed |-> TRUE]
  ELSE r

\* if (diff <= 0) return changed; for (let i = 0; i < diff; i++) ...
RollBy(r, diff) ==
  IF diff <= 0
  THEN [task |-> r.task, changed |-> r.changed, secured |-> <<>>]
  ELSE RollDays(r.task, LoopCount(diff), <<>>)

\* const diff = dayDiff(task.dayKey, todayKey), and what follows it.
Roll(r, todayKey) == RollBy(r, dayDiff(r.task.dayKey, todayKey))

\* processTaskToToday(task, todayKey): the task after the call, what it
\* returns, and the day keys it secured.
processTaskToToday(task, todayKey) ==
  Roll(Clamp(Repair(task, todayKey), todayKey), todayKey)

\* if (!Number.isFinite(task.hopper) || task.hopper < 0) task.hopper = 0
EnsureValid(r) ==
  IF r.task.hopper < 0 THEN [r EXCEPT !.task.hopper = 0, !.changed = TRUE]
  ELSE r

\* The body of processAllToToday's loop for one task.
ProcessOne(task, todayKey) == EnsureValid(processTaskToToday(task, todayKey))

\* What the loop of processAllToToday leaves, task by task, put together.
Collect(out) ==
  [tasks   |-> [i \in DOMAIN out |-> out[i].task],
   changed |-> \E i \in DOMAIN out : out[i].changed,
   secured |-> [i \in DOMAIN out |-> out[i].secured]]

\* processAllToToday(): the task list after the call, what it returns, and
\* per task the day keys it secured.
processAllToToday(tasks) ==
  Collect([i \in 1..Len(tasks) |-> ProcessOne(tasks[i], localDateKey)])

----------------------------------------------------------------------------
(* Files, and the chain of saves *)

NoRegistry == [backgroundUrl |-> "null", tasks |-> <<>>]
Absent == [kind |-> "absent", data |-> NoRegistry]
Partial == [kind |-> "partial", data |-> NoRegistry]
File(data) == [kind |-> "file", data |-> data]

\* What loadStateFromDisk() returns for the durable file: a missing file
\* gives normalizeState(null).
DiskRegistry == IF disk.kind = "file" THEN disk.data ELSE NoRegistry

\* The part of the program's state the synchronous code of a handler, of the
\* ticker or of a write's completion reads and writes.
World ==
  [State |-> State, saveChain |-> saveChain, jobs |-> jobs,
   writeLog |-> writeLog, tmp |-> tmp, disk |-> disk, reqs |-> reqs,
   response |-> response, securedOn |-> securedOn, resecured |-> resecured]

\* The state the synchronous code leaves becomes the program's.
Commit(w) ==
  \E v \in {w} :
    /\ State' = v.State
    /\ saveChain' = v.saveChain
    /\ jobs' = v.jobs
    /\ writeLog' = v.writeLog
    /\ tmp' = v.tmp
    /\ disk' = v.disk
    /\ reqs' = v.reqs
    /\ response' = v.response
    /\ securedOn' = v.securedOn
    /\ resecured' = v.resecured

Settled(js, n) == n = 0 \/ js[n].st \in {"fulfilled", "rejected"}
Fulfilled(js, n) == n = 0 \/ js[n].st = "fulfilled"
Rejected(js, n) == n # 0 /\ js[n].st = "rejected"

\* saveChain = saveChain.then(...): the new promise follows the chain's last.
ChainAfterNothing(chain) == 0
ChainAfter(chain) == chain

\* saveStateToDisk(STATE): the argument is read, and serialized, when the
\* then-callback runs.
SnapshotAtRequest(asked, current) == asked
SnapshotForWrite(asked, current) == current

\* .catch((err) => console.error('Save error:', err)): the promise of a save
\* that failed is fulfilled.
FailureRejects == "rejected"
AfterFailure == "fulfilled"

\* The then-callback of job n runs: saveStateToDisk serializes the registry
\* and starts writing the temporary file.
StartJob(w, n) ==
  [w EXCEPT !.jobs[n].st = "writing",
            !.jobs[n].text = SnapshotForWrite(w.jobs[n].asked, w.State),
            !.writeLog = Append(@, <<"start", n>>)]

\* Job n is settled: the promise chained to it runs its then-callback, or,
\* after a rejection, skips it and settles as a failure does.
RECURSIVE RunNext(_, _)
RunNext(w, n) ==
  LET m == n + 1
  IN  IF m > Len(w.jobs) THEN w
      ELSE IF w.jobs[m].prev # n \/ w.jobs[m].st # "pending" THEN w
      ELSE IF w.jobs[n].st = "fulfilled" THEN StartJob(w, m)
      ELSE RunNext([w EXCEPT !.jobs[m].st = AfterFailure], m)

\* saveStateToDisk of job n returned (how: "end") or threw (how: "fail"),
\* which leaves the promise of the job in state st.
Settle(w, n, how, st) ==
  RunNext([w EXCEPT !.jobs[n].st = st,
                    !.jobs[n].text = NoRegistry,
                    !.jobs[n].asked = NoRegistry,
                    !.writeLog = Append(@, <<how, n>>)], n)

\* queueSave(): the job is the promise returned, which is the new saveChain.
queueSave(w) ==
  LET n    == Len(w.jobs) + 1
      prev == ChainAfter(w.saveChain)
      job  == [st |-> "pending", prev |-> prev, text |-> NoRegistry,
               asked |-> w.State]
      w1   == [w EXCEPT !.jobs = Append(@, job), !.saveChain = n]
  IN  IF ~Settled(w.jobs, prev) THEN w1
      ELSE IF Fulfilled(w.jobs, prev) THEN StartJob(w1, n)
      ELSE RunNext([w1 EXCEPT !.jobs[n].st = AfterFailure], n)

----------------------------------------------------------------------------
(* The rollover pass on the registry *)

\* The securings of task id, on the day keys of keys in order, recorded.
RECURSIVE Audit(_, _, _)
Audit(w, id, keys) ==
  IF keys = <<>> THEN w
  ELSE Audit([w EXCEPT !.resecured = @ \/ (<<id, Head(keys)>> \in w.securedOn),
                       !.securedOn = @ \cup {<<id, Head(keys)>>}],
             id, Tail(keys))

RECURSIVE AuditAll(_, _, _, _)
AuditAll(w, tasks, secured, i) ==
  IF i > Len(tasks) THEN w
  ELSE AuditAll(Audit(w, tasks[i].id, secured[i]), tasks, secured, i + 1)

\* The pass's result r taken into the registry.
Passed(w, r) ==
  [w |-> AuditAll([w EXCEPT !.State.tasks = r.tasks], r.tasks, r.secured, 1),
   changed |-> r.changed]

\* const changed = processAllToToday()
Pass(w) == Passed(w, processAllToToday(w.State.tasks))

----------------------------------------------------------------------------
(* handleApi *)

NoTask ==
  [id |-> "-", hopper |-> 0, streak |-> 0, dayKey |-> <<>>,
   securedToday |-> FALSE, lastSecuredReason |-> "null"]

\* A handleApi call that is not running: its slot is free.
Idle ==
  [kind |-> "none", pc |-> "idle", id |-> "-", wait |-> 0,
   secured |-> FALSE, held |-> NoTask]

NoResponse ==
  [status |-> 0, kind |-> "none", today |-> <<>>, tasks |-> <<>>,
   secured |-> FALSE]

HasTask(tasks, id) == \E i \in 1..Len(tasks) : tasks[i].id = id
IndexOf(tasks, id) == CHOOSE i \in 1..Len(tasks) : tasks[i].id = id

\* The object a handler's const task refers to: the registry's, or, once it
\* was removed from the registry, the object as it was left.
TaskObject(w, h) ==
  IF HasTask(w.State.tasks, w.reqs[h].held.id)
  THEN w.State.tasks[IndexOf(w.State.tasks, w.reqs[h].held.id)]
  ELSE w.reqs[h].held

\* sendJson(res, status, ...), which ends the call.
Respond(w, h, status, kind, tasks, secured) ==
  [w EXCEPT !.response = [status |-> status, kind |-> kind,
                          today |-> IF kind = "state" THEN localDateKey
                                    ELSE <<>>,
                          tasks |-> tasks, secured |-> secured],
            !.reqs[h] = Idle]

\* const [task] = STATE.tasks.splice(idx, 1)
Splice(w, id) ==
  LET gone == w.State.tasks[IndexOf(w.State.tasks, id)]
  IN  [w EXCEPT !.State.tasks = SelectSeq(@, LAMBDA t : t.id # id),
                !.reqs = [k \in DOMAIN @ |->
                            IF @[k].held.id = id
                            THEN [@[k] EXCEPT !.held = gone] ELSE @[k]]]

\* The route of the call, up to its first await or its response.
Route(w, h) ==
  LET r == w.reqs[h]
  IN  CASE r.kind = "get" ->
             Respond(w, h, 200, "state", w.State.tasks, FALSE)
        [] r.kind \in {"create", "add", "bg"} ->
             [w EXCEPT !.reqs[h].pc = "body"]
        [] r.kind = "delete" ->
             IF ~HasTask(w.State.tasks, r.id)
             THEN Respond(w, h, 404, "error", <<>>, FALSE)
             ELSE [Splice(w, r.id) EXCEPT !.reqs[h].pc = "unlink"]
        [] r.kind = "bgclear" ->
             [w EXCEPT !.reqs[h].pc = "unlink"]

\* The call waits, at pc, for the promise queueSave() has just returned.
Await(w, h, pc) ==
  [w EXCEPT !.reqs[h].pc = pc, !.reqs[h].wait = w.saveChain]

\* if (rolled) await queueSave(); and the route when nothing rolled.
Rolled(p, h, kind, id) ==
  IF p.changed
  THEN Await(queueSave([p.w EXCEPT !.reqs[h] =
                          [Idle EXCEPT !.kind = kind, !.id = id]]),
             h, "rollSave")
  ELSE Route([p.w EXCEPT !.reqs[h] = [Idle EXCEPT !.kind = kind, !.id = id]],
             h)

\* const rolled = processAllToToday(); if (rolled) await queueSave();
Enter(w, h, kind, id) == Rolled(Pass(w), h, kind, id)

\* await queueSave(), called with the call's mutation made.
SaveAndWait(w, h) == Await(queueSave(w), h, "save")

\* asSafeNumber(body.amount, NaN) is held as [t, v]: a finite number v, or
\* "nan" (a missing, non-numeric or infinite amount), or "huge" (a finite
\* number above 1_000_000, which the model's integers do not hold).
\* The check of the amount left out: no amount is too large.
NothingExceeds(amount) == FALSE

ExceedsMax(amount) == amount.t = "huge"

\* task.hopper + amount, not rounded.
NewHopperUnrounded(hopper, amount) ==
  IF amount.t = "num" THEN hopper + amount.v ELSE 0

\* roundTo(task.hopper + amount): roundTo gives 0 for a sum that is not finite.
NewHopper(hopper, amount) ==
  IF amount.t = "num" THEN roundTo(hopper + amount.v) ELSE 0

\* POST /api/tasks/:id/add, from the body read to await queueSave().
AddToHopper(w, h, amount) ==
  LET r == w.reqs[h]
  IN  IF ExceedsMax(amount) THEN Respond(w, h, 400, "error", <<>>, FALSE)
      ELSE IF ~HasTask(w.State.tasks, r.id)
      THEN Respond(w, h, 404, "error", <<>>, FALSE)
      ELSE LET i  == IndexOf(w.State.tasks, r.id)
               s  == trySecureToday(
                       [w.State.tasks[i] EXCEPT
                          !.hopper = NewHopper(@, amount)], "add")
               w1 == [w EXCEPT !.State.tasks[i] = s.task,
                               !.reqs[h].secured = s.secured,
                               !.reqs[h].held = s.task]
               w2 == IF s.secured THEN Audit(w1, r.id, <<s.task.dayKey>>)
                     ELSE w1
           IN  SaveAndWait(w2, h)

IdNames == <<"t1", "t2", "t3", "t4">>

\* const id = crypto.randomUUID(); const todayKey = localDateKey(); and the
\* task made of them: the id is the next unused one.
NewTask(w) ==
  LET used == {w.State.tasks[i].id : i \in 1..Len(w.State.tasks)}
                \cup {w.reqs[k].held.id : k \in DOMAIN w.reqs}
                \cup {p[1] : p \in w.securedOn}
      id   == IdNames[CHOOSE n \in 1..Len(IdNames) :
                        /\ IdNames[n] \notin used
                        /\ \A m \in 1..(n - 1) : IdNames[m] \in used]
  IN  [id |-> id, hopper |-> 0, streak |-> 0, dayKey |-> localDateKey,
       securedToday |-> FALSE, lastSecuredReason |-> "null"]

\* STATE.tasks.push(task); await queueSave(), with the task the call holds.
PushHeld(w, h) ==
  SaveAndWait([w EXCEPT !.State.tasks = Append(@, w.reqs[h].held)], h)

\* POST /api/tasks, from the body read (a name, no thumbnail) to await
\* queueSave().
CreateTask(w, h) == PushHeld([w EXCEPT !.reqs[h].held = NewTask(w)], h)

\* POST /api/tasks, from the body read (a name and a thumbnail) to await
\* fsp.writeFile(outPath, file.data): id and todayKey are taken before it.
CreateWithThumbnail(w, h) ==
  [w EXCEPT !.reqs[h].held = NewTask(w), !.reqs[h].pc = "file"]

\* The code after await fsp.writeFile(outPath, file.data).
AfterFile(w, h) ==
  CASE w.reqs[h].kind = "create" -> PushHeld(w, h)
    [] w.reqs[h].kind = "bg" -> [w EXCEPT !.reqs[h].pc = "unlink"]

\* The code after await readJson(req) or await readMultipart(req).
AfterBody(w, h, amount) ==
  CASE w.reqs[h].kind = "add" -> AddToHopper(w, h, amount)
    [] w.reqs[h].kind = "create" -> CreateTask(w, h)
    [] w.reqs[h].kind = "bg" -> [w EXCEPT !.reqs[h].pc = "file"]

\* The code after await safeUnlink(...).
AfterUnlink(w, h) ==
  CASE w.reqs[h].kind = "delete" -> SaveAndWait(w, h)
    [] w.reqs[h].kind = "bgclear" ->
         SaveAndWait([w EXCEPT !.State.backgroundUrl = "null"], h)
    [] w.reqs[h].kind = "bg" ->
         SaveAndWait([w EXCEPT !.State.backgroundUrl = "/uploads/background"], h)

\* The code after await queueSave(): the route after the rollover's save, the
\* response after the mutation's; a rejection ends the call in handleRequest's
\* catch.
AfterSave(w, h) ==
  LET r == w.reqs[h]
  IN  IF Rejected(w.jobs, r.wait) THEN Respond(w, h, 500, "error", <<>>, FALSE)
      ELSE CASE r.pc = "rollSave" -> Route(w, h)
             [] r.kind = "add" ->
                  Respond(w, h, 200, "task", <<TaskObject(w, h)>>, r.secured)
             [] r.kind = "create" ->
                  Respond(w, h, 201, "task", <<TaskObject(w, h)>>, FALSE)
             [] OTHER -> Respond(w, h, 200, "ok", <<>>, FALSE)

----------------------------------------------------------------------------
(* The server: main(), the ticker, the requests, the writes, the clock *)

FirstDay == 19780
WindowDays == 5
Days == FirstDay..(FirstDay + WindowDays - 1)
StartDay == FirstDay + 2

MaxHandlers == 2
MaxRequests == 2
MaxMoves == 1

Half == Resolution \div 2

Handlers == 1..MaxHandlers
Kinds == {"get", "create", "add", "delete", "bg", "bgclear"}
Amounts ==
  {[t |-> "num", v |-> DAILY_THRESHOLD], [t |-> "num", v |-> -DAILY_THRESHOLD],
   [t |-> "nan", v |-> 0], [t |-> "huge", v |-> 0]}

\* The registries loadStateFromDisk() may return at the start: none on disk,
\* or one task the program saved on an earlier day or on this one.
LoadableTasks ==
  [id : {"a"}, hopper : {0, 5 * Half}, streak : {1},
   dayKey : {dateKeyFromUTCDate(FirstDay), dateKeyFromUTCDate(StartDay)},
   securedToday : {FALSE}, lastSecuredReason : {"null"}]
LoadableRegistries == {<<>>} \cup {<<t>> : t \in LoadableTasks}

\* Nothing of the server runs: the state the stand-alone rollover pass keeps.
ServerAtRest ==
  /\ saveChain = 0
  /\ jobs = <<>>
  /\ writeLog = <<>>
  /\ tmp = Absent
  /\ mainWait = 0
  /\ lastDayKey = <<>>
  /\ reqs = [h \in Handlers |-> Idle]
  /\ response = NoResponse
  /\ securedOn = {}
  /\ resecured = FALSE
  /\ arrived = 0
  /\ moves = 0

NoProbe == [input |-> <<>>, results |-> <<>>]

\* main() after STATE = await loadStateFromDisk().
Loaded ==
  /\ now = StartDay
  /\ \E tasks \in LoadableRegistries :
       /\ State = [backgroundUrl |-> "null", tasks |-> tasks]
       /\ disk = IF tasks = <<>> THEN Absent ELSE File(State)
  /\ mainPc = "start"
  /\ ServerAtRest
  /\ probe = NoProbe

Init == Loaded /\ limits = [requests |-> MaxRequests, moves |-> MaxMoves]

\* const changed = processAllToToday(); if (changed) await queueSave();
MainRolled(p) ==
  IF p.changed
  THEN /\ Commit(queueSave(p.w))
       /\ mainPc' = "awaitSave"
       /\ mainWait' = saveChain'
       /\ UNCHANGED lastDayKey
  ELSE /\ Commit(p.w)
       /\ mainPc' = "listening"
       /\ lastDayKey' = localDateKey
       /\ UNCHANGED mainWait

MainStart ==
  /\ mainPc = "start"
  /\ \E p \in {Pass(World)} : MainRolled(p)
  /\ UNCHANGED <<now, arrived, moves, limits, probe>>

\* let lastDayKey = localDateKey(); setInterval(...); server.listen(...); a
\* rejected save ends main() in process.exit(1).
MainListen ==
  /\ mainPc = "awaitSave"
  /\ Settled(jobs, mainWait)
  /\ IF Rejected(jobs, mainWait)
     THEN mainPc' = "exited" /\ UNCHANGED lastDayKey
     ELSE mainPc' = "listening" /\ lastDayKey' = localDateKey
  /\ UNCHANGED <<now, State, saveChain, jobs, writeLog, tmp, disk, mainWait,
                 reqs, response, securedOn, resecured, arrived, moves, limits, probe>>

\* if (didChange) await queueSave(), in the ticker's callback, after the
\* pass p.
TickerNoSave(p) == p.w
TickerSave(p) == IF p.changed THEN queueSave(p.w) ELSE p.w

\* The setInterval callback, at a firing that finds a new day.
TickerFire ==
  /\ mainPc = "listening"
  /\ localDateKey # lastDayKey
  /\ lastDayKey' = localDateKey
  /\ Commit(TickerSave(Pass(World)))
  /\ UNCHANGED <<now, mainPc, mainWait, arrived, moves, limits, probe>>

Running == mainPc \in {"start", "awaitSave", "listening"}

\* A request reaches handleApi: the rollover pass, and the route up to its
\* first await.
Arrive(h, kind, id) ==
  /\ mainPc = "listening"
  /\ arrived < limits.requests
  /\ reqs[h].pc = "idle"
  /\ \A k \in Handlers : k < h => reqs[k].pc # "idle"
  /\ Commit(Enter(World, h, kind, id))
  /\ arrived' = arrived + 1
  /\ UNCHANGED <<now, mainPc, mainWait, lastDayKey, moves, limits, probe>>

\* The ids a request may name: those of the registry, and one of no task.
TargetIds ==
  {State.tasks[i].id : i \in 1..Len(State.tasks)} \cup {"none"}

\* await readJson(req) or await readMultipart(req) ends.
BodyRead(h, amount) ==
  /\ Running
  /\ reqs[h].pc = "body"
  /\ reqs[h].kind = "add" \/ amount.t = "nan"
  /\ Commit(AfterBody(World, h, amount))
  /\ UNCHANGED <<now, mainPc, mainWait, lastDayKey, arrived, moves, limits, probe>>

\* await readMultipart(req) ends, for a create that brings a thumbnail.
BodyReadWithFile(h) ==
  /\ Running
  /\ reqs[h].pc = "body"
  /\ reqs[h].kind = "create"
  /\ Commit(CreateWithThumbnail(World, h))
  /\ UNCHANGED <<now, mainPc, mainWait, lastDayKey, arrived, moves, limits, probe>>

\* await fsp.writeFile(outPath, file.data) ends.
FileWritten(h) ==
  /\ Running
  /\ reqs[h].pc = "file"
  /\ Commit(AfterFile(World, h))
  /\ UNCHANGED <<now, mainPc, mainWait, lastDayKey, arrived, moves, limits, probe>>

\* await safeUnlink(...) ends.
Unlinked(h) ==
  /\ Running
  /\ reqs[h].pc = "unlink"
  /\ Commit(AfterUnlink(World, h))
  /\ UNCHANGED <<now, mainPc, mainWait, lastDayKey, arrived, moves, limits, probe>>

\* await queueSave() ends.
SaveAwaited(h) ==
  /\ Running
  /\ reqs[h].pc \in {"rollSave", "save"}
  /\ Settled(jobs, reqs[h].wait)
  /\ Commit(AfterSave(World, h))
  /\ UNCHANGED <<now, mainPc, mainWait, lastDayKey, arrived, moves, limits, probe>>

\* await fsp.writeFile(tmp, text, 'utf8') ends well.
WriteTmpOk(n) ==
  /\ Running
  /\ jobs[n].st = "writing"
  /\ Commit([World EXCEPT !.tmp = File(jobs[n].text),
                          !.jobs[n].st = "renaming"])
  /\ UNCHANGED <<now, mainPc, mainWait, lastDayKey, arrived, moves, limits, probe>>

\* saveStateToDisk writing straight to DATA_PATH: the write that throws
\* leaves the durable file written in part.
WriteDataFail(n) ==
  /\ Running
  /\ jobs[n].st = "writing"
  /\ Commit(Settle([World EXCEPT !.disk = Partial], n, "fail", AfterFailure))
  /\ UNCHANGED <<now, mainPc, mainWait, lastDayKey, arrived, moves, limits, probe>>

\* await fsp.writeFile(tmp, text, 'utf8') throws, with the temporary file
\* as it was or written in part.
WriteTmpFail(n) ==
  /\ Running
  /\ jobs[n].st = "writing"
  /\ \E left \in {tmp, Partial} :
       Commit(Settle([World EXCEPT !.tmp = left], n, "fail", AfterFailure))
  /\ UNCHANGED <<now, mainPc, mainWait, lastDayKey, arrived, moves, limits, probe>>

\* await fsp.rename(tmp, DATA_PATH) ends well.
RenameOk(n) ==
  /\ Running
  /\ jobs[n].st = "renaming"
  /\ tmp.kind # "absent"
  /\ Commit(Settle([World EXCEPT !.disk = tmp, !.tmp = Absent], n, "end",
                   "fulfilled"))
  /\ UNCHANGED <<now, mainPc, mainWait, lastDayKey, arrived, moves, limits, probe>>

\* await fsp.rename(tmp, DATA_PATH) throws.
RenameFail(n) ==
  /\ Running
  /\ jobs[n].st = "renaming"
  /\ Commit(Settle(World, n, "fail", AfterFailure))
  /\ UNCHANGED <<now, mainPc, mainWait, lastDayKey, arrived, moves, limits, probe>>

\* Midnight: the local day becomes the next one.
Midnight ==
  /\ Running
  /\ moves < limits.moves
  /\ now + 1 \in Days
  /\ now' = now + 1
  /\ moves' = moves + 1
  /\ UNCHANGED <<State, saveChain, jobs, writeLog, tmp, disk, mainPc, mainWait,
                 lastDayKey, reqs, response, securedOn, resecured, arrived,
                 limits, probe>>

\* The clock is set back by a day.
ClockBack ==
  /\ Running
  /\ moves < limits.moves
  /\ now - 1 \in Days
  /\ now' = now - 1
  /\ moves' = moves + 1
  /\ UNCHANGED <<State, saveChain, jobs, writeLog, tmp, disk, mainPc, mainWait,
                 lastDayKey, reqs, response, securedOn, resecured, arrived,
                 limits, probe>>

Requests(kinds) ==
  \/ \E h \in Handlers, kind \in kinds \ {"add", "delete"} : Arrive(h, kind, "-")
  \/ \E h \in Handlers, kind \in kinds \cap {"add", "delete"}, id \in TargetIds :
       Arrive(h, kind, id)

\* The server while the file system does not fail.
Next ==
  \/ MainStart
  \/ MainListen
  \/ TickerFire
  \/ Requests(Kinds)
  \/ \E h \in Handlers, amount \in Amounts : BodyRead(h, amount)
  \/ \E h \in Handlers : BodyReadWithFile(h)
  \/ \E h \in Handlers : FileWritten(h)
  \/ \E h \in Handlers : Unlinked(h)
  \/ \E h \in Handlers : SaveAwaited(h)
  \/ \E n \in 1..Len(jobs) : WriteTmpOk(n)
  \/ \E n \in 1..Len(jobs) : RenameOk(n)
  \/ Midnight
  \/ ClockBack

Spec == Init /\ [][Next]_vars

\* The same server over a longer stretch of clock changes, with one request.
MaxClockRequests == 1
MaxClockMoves == 2

InitClock ==
  Loaded /\ limits = [requests |-> MaxClockRequests, moves |-> MaxClockMoves]

SpecClock == InitClock /\ [][Next]_vars

\* The server with writes that fail, under the requests that read and change
\* the task list.
FailKinds == {"get", "add", "delete"}

NextFail ==
  \/ MainStart
  \/ MainListen
  \/ TickerFire
  \/ Requests(FailKinds)
  \/ \E h \in Handlers, amount \in Amounts : BodyRead(h, amount)
  \/ \E h \in Handlers : Unlinked(h)
  \/ \E h \in Handlers : SaveAwaited(h)
  \/ \E n \in 1..Len(jobs) : WriteTmpOk(n)
  \/ \E n \in 1..Len(jobs) : WriteTmpFail(n)
  \/ \E n \in 1..Len(jobs) : RenameOk(n)
  \/ \E n \in 1..Len(jobs) : RenameFail(n)
  \/ Midnight
  \/ ClockBack

SpecFail == Init /\ [][NextFail]_vars

\* What the runs examined to their end rely on: a call of fs that a handler
\* awaits (writeFile of an upload, unlink) ends. That a client sends its body,
\* or that the timer fires, is not relied on.
FsCallsEnd ==
  /\ \A h \in Handlers : WF_vars(FileWritten(h))
  /\ \A h \in Handlers : WF_vars(Unlinked(h))

\* The writes of saveStateToDisk end, and end well.
LiveSpec ==
  /\ Spec
  /\ FsCallsEnd
  /\ WF_vars(\E n \in 1..Len(jobs) : WriteTmpOk(n))
  /\ WF_vars(\E n \in 1..Len(jobs) : RenameOk(n))

\* The runs with failing writes whose end is examined: one request, one clock
\* change.
MaxLiveRequests == 1
MaxLiveMoves == 1

InitLive ==
  Loaded /\ limits = [requests |-> MaxLiveRequests, moves |-> MaxLiveMoves]

\* The writes of saveStateToDisk end, well or not.
LiveFail ==
  /\ InitLive /\ [][NextFail]_vars
  /\ FsCallsEnd
  /\ WF_vars(\E n \in 1..Len(jobs) : WriteTmpOk(n) \/ WriteTmpFail(n))
  /\ WF_vars(\E n \in 1..Len(jobs) : RenameOk(n) \/ RenameFail(n))

----------------------------------------------------------------------------
(* normalizeTask on a parsed JSON value *)

\* A JavaScript value: its type t and, by type, the number n (in model units),
\* the characters s of a string, the boolean b. Of a string, numeric says
\* that Number() reads it as the number n, and k is its <<y, m, d>> when it
\* has the form of a day key. "huge" is a finite number so large that
\* (n + Number.EPSILON) * 10 ** 6 is Infinity (n above about 1.8e302).
Value(t, n, s, b, numeric, k) ==
  [t |-> t, n |-> n, s |-> s, b |-> b, numeric |-> numeric, k |-> k]
Undefined == Value("undefined", 0, <<>>, FALSE, FALSE, <<>>)
Null == Value("null", 0, <<>>, FALSE, FALSE, <<>>)
Bool(b) == Value("boolean", 0, <<>>, b, FALSE, <<>>)
Num(n) == Value("number", n, <<>>, FALSE, FALSE, <<>>)
Huge == Value("huge", 0, <<>>, FALSE, FALSE, <<>>)
Str(s) == Value("string", 0, s, FALSE, FALSE, <<>>)
NumStr(n) == Value("string", n, <<"#">>, FALSE, TRUE, <<>>)
KeyStr(k) == Value("string", 0, <<"k">>, FALSE, FALSE, k)

\* String.prototype.trim
RECURSIVE TrimStart(_)
TrimStart(s) ==
  IF s # <<>> /\ Head(s) = " " THEN TrimStart(Tail(s)) ELSE s
RECURSIVE TrimEnd(_)
TrimEnd(s) ==
  IF s # <<>> /\ s[Len(s)] = " " THEN TrimEnd(SubSeq(s, 1, Len(s) - 1)) ELSE s
Trim(s) == TrimEnd(TrimStart(s))

\* Number(v): [t, n] with t "num" (the number n), "huge" or "nan".
Number(v) ==
  CASE v.t = "number" -> [t |-> "num", n |-> v.n]
    [] v.t = "huge" -> [t |-> "huge", n |-> 0]
    [] v.t = "null" -> [t |-> "num", n |-> 0]
    [] v.t = "boolean" -> [t |-> "num", n |-> IF v.b THEN Resolution ELSE 0]
    [] v.t = "string" /\ v.numeric -> [t |-> "num", n |-> v.n]
    [] v.t = "string" /\ ~v.numeric /\ Trim(v.s) = <<>> -> [t |-> "num", n |-> 0]
    [] OTHER -> [t |-> "nan", n |-> 0]

\* asSafeNumber(v, fallback): Number.isFinite(n) ? n : fallback
asSafeNumber(v, fallback) ==
  IF Number(v).t = "nan" THEN [t |-> "num", n |-> fallback] ELSE Number(v)

\* roundTo(x) of a finite x: Math.round(Infinity) / f is Infinity.
roundToFinite(x) ==
  IF x.t = "huge" THEN [t |-> "inf", n |-> 0]
  ELSE [t |-> "num", n |-> roundTo(x.n)]

\* Number.isInteger(v): a number (no string, no boolean) without fraction.
IsInteger(v) == v.t = "huge" \/ (v.t = "number" /\ v.n % Resolution = 0)

EmptyObject ==
  [kind |-> "object", id |-> Undefined, name |-> Undefined,
   hopper |-> Undefined, streak |-> Undefined, dayKey |-> Undefined,
   securedToday |-> Undefined]

UUID == <<"u", "u", "i", "d">>
Untitled == <<"U", "n", "t", "i", "t", "l", "e", "d", " ", "t", "a", "s", "k">>

\* const t = (raw && typeof raw === 'object') ? raw : {}
ObjectOf(raw) == IF raw.kind = "object" THEN raw ELSE EmptyObject

\* The fields normalizeTask returns from t (thumbnailUrl, the timestamps and
\* lastSecuredReason left out); the streak is held as the count it is, or as
\* "huge".
NormalizedFrom(t) ==
  [id |-> IF t.id.t = "string" /\ t.id.s # <<>> THEN t.id.s ELSE UUID,
   name |-> IF t.name.t = "string" /\ Trim(t.name.s) # <<>>
            THEN Trim(t.name.s) ELSE Untitled,
   hopper |-> roundToFinite(asSafeNumber(t.hopper, 0)),
   streak |-> IF IsInteger(t.streak)
              THEN [t |-> IF t.streak.t = "huge" THEN "huge" ELSE "num",
                    n |-> t.streak.n \div Resolution]
              ELSE [t |-> "num", n |-> 0],
   dayKey |-> IF t.dayKey.t = "string" /\ WellFormed(t.dayKey.k)
              THEN t.dayKey.k ELSE localDateKey,
   securedToday |-> IF t.securedToday.t = "boolean" THEN t.securedToday.b
                    ELSE FALSE]

normalizeTask(raw) == NormalizedFrom(ObjectOf(raw))

----------------------------------------------------------------------------
(* The rollover pass on its own: a registry as it may be loaded, at any day *)
(* of the window, advanced once and then once more with the day unchanged.  *)

RollHoppers ==
  {-Half, 0, Half, DAILY_THRESHOLD, 3 * Half, 2 * DAILY_THRESHOLD, 7 * Half}
RollStreaks == {0, 2}
RollKeys == {dateKeyFromUTCDate(n) : n \in Days} \cup {<<2024, 2, 30>>}
RollTasks ==
  [id : {"a"}, hopper : RollHoppers, streak : RollStreaks, dayKey : RollKeys,
   securedToday : BOOLEAN, lastSecuredReason : {"null"}]
RollSecondTasks ==
  [id : {"b"}, hopper : {0, 2 * DAILY_THRESHOLD}, streak : {1},
   dayKey : {dateKeyFromUTCDate(FirstDay), dateKeyFromUTCDate(FirstDay + 2)},
   securedToday : {FALSE}, lastSecuredReason : {"null"}]
RollRegistries ==
  {<<>>} \cup {<<t>> : t \in RollTasks}
         \cup {<<t, u>> : t \in RollTasks, u \in RollSecondTasks}

InitRoll ==
  /\ now \in Days
  /\ \E tasks \in RollRegistries :
       /\ State = [backgroundUrl |-> "null", tasks |-> tasks]
       /\ probe = [input |-> tasks, results |-> <<>>]
  /\ disk = Absent
  /\ mainPc = "start"
  /\ ServerAtRest
  /\ limits = [requests |-> 0, moves |-> 0]

\* const changed = processAllToToday(), called again with the day unchanged.
RollPassed(r) ==
  /\ State' = [State EXCEPT !.tasks = r.tasks]
  /\ probe' = [probe EXCEPT !.results = Append(@, r)]

RollPass ==
  /\ Len(probe.results) < 2
  /\ \E r \in {processAllToToday(State.tasks)} : RollPassed(r)
  /\ UNCHANGED <<now, saveChain, jobs, writeLog, tmp, disk, mainPc, mainWait,
                 lastDayKey, reqs, response, securedOn, resecured, arrived,
                 moves, limits>>

NextRoll == RollPass

SpecRoll == InitRoll /\ [][NextRoll]_vars

----------------------------------------------------------------------------
(* normalizeTask on its own: one record of a parsed file, normalized *)

RawIds == {Undefined, Num(Resolution), Str(<<>>), Str(<<"a">>)}
RawNames ==
  {Undefined, Bool(TRUE), Str(<<" ", " ">>), Str(<<" ", "x", " ">>)}
RawHoppers ==
  {Undefined, Null, Str(<<"x">>), NumStr(5 * Half), Num(0), Num(12345675),
   Num(-3 * Resolution), Huge}
RawStreaks ==
  {Undefined, Str(<<"3">>), Num(3 * Half), Num(3 * Resolution),
   Num(-2 * Resolution)}
RawDayKeys ==
  {Undefined, Num(Resolution), Str(<<"x">>), KeyStr(<<2024, 2, 27>>),
   KeyStr(<<2024, 13, 45>>)}
RawFlags == {Undefined, Str(<<"y">>), Bool(TRUE), Bool(FALSE)}

\* The values normalizeTask may be given: null, a value that is no object,
\* an object with any of the values above in each field ({} among them).
RawRecords ==
  [kind : {"object"}, id : RawIds, name : RawNames, hopper : RawHoppers,
   streak : RawStreaks, dayKey : RawDayKeys, securedToday : RawFlags]
    \cup {[EmptyObject EXCEPT !.kind = "null"],
          [EmptyObject EXCEPT !.kind = "other"]}

InitNorm ==
  /\ now = StartDay
  /\ State = NoRegistry
  /\ \E raw \in RawRecords : probe = [input |-> raw, results |-> <<>>]
  /\ disk = Absent
  /\ mainPc = "start"
  /\ ServerAtRest
  /\ limits = [requests |-> 0, moves |-> 0]

\* s.tasks.map(normalizeTask), for one record.
NormalizeRecord ==
  /\ probe.results = <<>>
  /\ probe' = [probe EXCEPT !.results = <<normalizeTask(probe.input)>>]
  /\ UNCHANGED <<now, State, saveChain, jobs, writeLog, tmp, disk, mainPc,
                 mainWait, lastDayKey, reqs, response, securedOn, resecured,
                 arrived, moves, limits>>

NextNorm == NormalizeRecord

SpecNorm == InitNorm /\ [][NextNorm]_vars

----------------------------------------------------------------------------
(* Claims about the rollover pass (checked under SpecRoll) *)

Passes == Len(probe.results)
DaysStale(i) == dayDiff(probe.input[i].dayKey, localDateKey)

\* C1: a second rollover pass right after a first one, with the current day
\* unchanged, reports no change and leaves every task as the first pass
\* left it.
C1_RolloverIdempotent ==
  Passes = 2 =>
    /\ probe.results[2].changed = FALSE
    /\ probe.results[2].tasks = probe.results[1].tasks
    /\ State.tasks = probe.results[1].tasks

\* The first pass advanced a task over two days or more, and the second pass
\* has run.
C1_Witness ==
  /\ Passes = 2
  /\ Len(probe.input) = 2
  /\ DaysStale(1) >= 2
  /\ probe.results[1].changed
  /\ probe.results[1].tasks # probe.input

CatchUpCase(i) ==
  /\ Passes >= 1
  /\ Len(probe.input) >= i
  /\ probe.input[i].hopper = 7 * Half
  /\ ~probe.input[i].securedToday
  /\ DaysStale(i) = 3
  /\ ~KeyGreater(probe.input[i].dayKey, localDateKey)

\* C2 as stated: hopper 3.5, unsecured, three days behind, any streak s: one
\* advance ends with hopper 0.5, unsecured, streak s + 2.
C2_CatchUpAddsTwo ==
  \A i \in 1..2 : CatchUpCase(i) =>
    /\ probe.results[1].tasks[i].hopper = Half
    /\ ~probe.results[1].tasks[i].securedToday
    /\ probe.results[1].tasks[i].streak = probe.input[i].streak + 2

\* C2, amended: hopper 3.5, unsecured, three days behind, any streak s: one
\* advance ends with hopper 0.5, unsecured, streak 2 (the unsecured day that
\* closes first resets the streak to 0, then two days auto-secure).
C2_CatchUpEndsAtTwo ==
  \A i \in 1..2 : CatchUpCase(i) =>
    /\ probe.results[1].tasks[i].hopper = Half
    /\ ~probe.results[1].tasks[i].securedToday
    /\ probe.results[1].tasks[i].streak = 2
    /\ probe.results[1].tasks[i].dayKey = localDateKey

\* The catch-up case with a streak of 2 before the pass.
C2_Witness ==
  /\ CatchUpCase(1)
  /\ probe.input[1].streak = 2
  /\ probe.results[1].tasks[1].streak = 2

OneDayCase(i) ==
  /\ Passes >= 1
  /\ Len(probe.input) >= i
  /\ probe.input[i].streak > 0
  /\ ~probe.input[i].securedToday
  /\ DaysStale(i) = 1
  /\ ~KeyGreater(probe.input[i].dayKey, localDateKey)

\* C3 as stated: streak > 0, unsecured, one day behind, any hopper: advancing
\* yields streak 0.
C3_StreakBreaks ==
  \A i \in 1..2 : OneDayCase(i) => probe.results[1].tasks[i].streak = 0

\* C3, amended: streak > 0, unsecured, one day behind: advancing yields
\* streak 0 when the hopper less the decay of 1.0 is below the threshold, and
\* streak 1 with the new day secured when it is not (the streak breaks, then
\* the new day auto-secures).
C3_StreakBreaksThenAutoSecures ==
  \A i \in 1..2 : OneDayCase(i) =>
    LET after == probe.results[1].tasks[i]
    IN  IF ReachesThreshold(probe.input[i].hopper - DAILY_THRESHOLD)
        THEN after.streak = 1 /\ after.securedToday
        ELSE after.streak = 0 /\ ~after.securedToday

\* A streak of 2 broken by one unsecured day, the hopper below 2.0.
C3_Witness ==
  /\ OneDayCase(1)
  /\ probe.input[1].streak = 2
  /\ probe.input[1].hopper = DAILY_THRESHOLD
  /\ probe.results[1].tasks[1].streak = 0

----------------------------------------------------------------------------
(* Claims about the running server *)

\* C4: over any sequence of adds, rollover passes and clock changes (backward
\* and forward included), no task is secured twice for the same calendar
\* date: trySecureToday never returns true for a task and a day key it has
\* returned true for before.
C4_SecuredOncePerDay == ~resecured

Hoppers(tasks) == {tasks[i].hopper : i \in 1..Len(tasks)}

\* C5: every task's hopper is >= 0 in the registry in memory, in the task
\* state last returned to a caller, and in the registry persisted.
C5_HopperNonNegative ==
  \A x \in Hoppers(State.tasks) \cup Hoppers(response.tasks)
             \cup Hoppers(DiskRegistry.tasks) : x >= 0

\* The step in which call h applies its mutation: the add or the create after
\* the body is read, the delete's splice.
Mutates(h) ==
  \/ reqs[h].pc \in {"body", "file"} /\ reqs'[h].pc = "save"
     /\ reqs[h].kind \in {"add", "create"}
  \/ reqs[h].pc # "unlink" /\ reqs'[h].pc = "unlink" /\ reqs'[h].kind = "delete"

\* The step in which call h sends task state: it ends with the registry or a
\* task as its response.
SendsState(h) ==
  /\ response'.kind \in {"state", "task"}
  /\ reqs'[h].pc = "idle"
  /\ \/ reqs[h].pc \in {"rollSave", "save"}
     \/ /\ arrived' # arrived
        /\ reqs[h].pc = "idle"
        /\ \A k \in Handlers : k < h => reqs[k].pc # "idle"

UpToDate(tasks, day) ==
  \A i \in 1..Len(tasks) : tasks[i].dayKey = dateKeyFromUTCDate(day)

\* C6: whenever a handler applies a mutation or sends task state, every task
\* of the registry has the current local day as its dayKey at that moment.
C6_NeverStale ==
  [][(\E h \in Handlers : Mutates(h) \/ SendsState(h))
       => UpToDate(State'.tasks, now')]_vars

InProgress(n) == jobs[n].st \in {"writing", "renaming"}

\* C7: at most one write is in progress at any time; the writes start and end
\* in the order of the requests (the k-th entry of the log is the start, or
\* the end, of write (k + 1) \div 2); a request waits only while the one
\* before it is unsettled, and once nothing is unsettled N requests have
\* made exactly N writes start and end.
C7_WritesSerialized ==
  /\ Cardinality({n \in 1..Len(jobs) : InProgress(n)}) <= 1
  /\ \A k \in 1..Len(writeLog) :
       /\ writeLog[k][2] = (k + 1) \div 2
       /\ writeLog[k][1] = "start" <=> k % 2 = 1
  /\ \A n \in 1..Len(jobs) :
       /\ jobs[n].st = "pending" => n > 1 /\ ~Settled(jobs, n - 1)
       /\ InProgress(n) => Len(writeLog) = 2 * n - 1
  /\ (\A n \in 1..Len(jobs) : Settled(jobs, n))
       => Len(writeLog) = 2 * Len(jobs)

\* Three requests made, the first one's write in progress and two waiting.
C7_Witness ==
  \E n \in 1..Len(jobs) :
    /\ InProgress(n)
    /\ Len(jobs) >= n + 2
    /\ jobs[n + 1].st = "pending"
    /\ jobs[n + 2].st = "pending"

\* C8 as stated: the content a write puts into the file is the registry as
\* it was when queueSave was called.
C8_SnapshotAtCall ==
  \A n \in 1..Len(jobs) : InProgress(n) => jobs[n].text = jobs[n].asked

Starts(n) ==
  /\ n > Len(jobs) \/ jobs[n].st = "pending"
  /\ jobs'[n].st = "writing"

\* C8, amended: the content a write puts into the file is the registry as it
\* is when the write starts, that is when saveStateToDisk is called once the
\* writes requested earlier have settled; that content is what the temporary
\* file holds when it is renamed and what the durable file holds after.
C8_SnapshotAtStart ==
  /\ [][\A n \in 1..Len(jobs') :
          /\ Starts(n) => jobs'[n].text = State'
          /\ (n <= Len(jobs) /\ jobs[n].st = "renaming"
                /\ jobs'[n].st = "fulfilled") => disk' = File(jobs[n].text)]_vars
  /\ [](\A n \in 1..Len(jobs) :
          jobs[n].st = "renaming" => tmp = File(jobs[n].text))

\* A write in progress whose content is not the registry of its request.
C8_Witness ==
  \E n \in 1..Len(jobs) :
    /\ jobs[n].st = "renaming"
    /\ jobs[n].text # jobs[n].asked
    /\ jobs[n].text = State

\* A call that has changed the registry and has its queueSave() still ahead:
\* a delete between the splice and the end of safeUnlink.
SaveAhead(rs) == \E h \in Handlers : rs[h].kind = "delete" /\ rs[h].pc = "unlink"

\* C9: while writes do not fail, a step that changes the registry queues a
\* persist request (or leaves the call that made it on its way to queueSave),
\* and in the end the durable file equals the registry in memory for good.
C9_EventuallyPersisted ==
  /\ [][State' # State => Len(jobs') > Len(jobs) \/ SaveAhead(reqs')]_vars
  /\ <>[](DiskRegistry = State)

\* All requests are spent, the registry was changed and saved, and the file
\* holds it.
C9_Witness ==
  /\ arrived = limits.requests
  /\ Len(jobs) >= 2
  /\ \A n \in 1..Len(jobs) : jobs[n].st = "fulfilled"
  /\ State.tasks # <<>>
  /\ disk = File(State)

Logged(how, n) == \E k \in 1..Len(writeLog) : writeLog[k] = <<how, n>>

\* C10: a write that fails leaves the registry in memory as it is; no promise
\* of queueSave rejects (no call ends in a 500, main does not exit); every
\* write requested is started and settles, whatever failed before it; and
\* when the last write requested has ended well, with no call on its way to
\* queueSave, the durable file equals the registry in memory.
C10_FailureIsolated ==
  /\ [][Len(writeLog') > Len(writeLog)
          /\ writeLog'[Len(writeLog) + 1][1] = "fail" => State' = State]_vars
  /\ [](/\ \A n \in 1..Len(jobs) :
            /\ jobs[n].st # "rejected"
            /\ Settled(jobs, n) => Logged("start", n)
        /\ response.status # 500
        /\ mainPc # "exited"
        /\ (/\ writeLog # <<>>
            /\ writeLog[Len(writeLog)] = <<"end", Len(jobs)>>
            /\ ~SaveAhead(reqs)) => DiskRegistry = State)
  /\ <>[](\A n \in 1..Len(jobs) : Settled(jobs, n))

\* A write failed, a later one ended well, and the file holds the registry.
C10_Witness ==
  /\ \E n \in 1..Len(jobs) : Logged("fail", n) /\ n < Len(jobs)
  /\ writeLog[Len(writeLog)] = <<"end", Len(jobs)>>
  /\ State.tasks # <<>>
  /\ disk = File(State)

\* C11: the durable file is never a file written in part, and it changes
\* only in the rename of a write, to the temporary file that write has
\* written in full: a reader sees the snapshot before or the snapshot after.
C11_AtomicReplacement ==
  /\ [](disk.kind # "partial")
  /\ [][disk' # disk =>
          /\ tmp.kind = "file"
          /\ disk' = tmp
          /\ \E n \in 1..Len(jobs) :
               /\ jobs[n].st = "renaming"
               /\ tmp.data = jobs[n].text
               /\ jobs'[n].st = "fulfilled"]_vars

\* A write failed part-way, the next one is in progress, and the durable
\* file is a whole snapshot.
C11_Witness ==
  /\ tmp.kind = "partial"
  /\ disk.kind = "file"
  /\ \E n \in 1..Len(jobs) : InProgress(n) /\ Logged("fail", n - 1)

\* The body of an add whose amount asSafeNumber(body.amount, NaN) finds not
\* finite (missing, not a number, NaN, infinite).
BadAmount == [t |-> "nan", v |-> 0]

\* The calls of add that stand at await readJson(req), their task in the
\* registry.
AddsAtBody ==
  {h \in Handlers : /\ reqs[h].pc = "body"
                    /\ reqs[h].kind = "add"
                    /\ HasTask(State.tasks, reqs[h].id)}

\* C12: an add whose amount is not a finite number is rejected as invalid
\* input (a 400), and the registry, the target task's hopper, streak and
\* securedToday with it, is left as it was.
C12_BadAmountRejected ==
  \A h \in AddsAtBody :
    /\ AddToHopper(World, h, BadAmount).response.status = 400
    /\ AddToHopper(World, h, BadAmount).State = State

FreeSlots == {h \in Handlers : reqs[h].pc = "idle"}
UnknownId == "none"

\* The call leaves the task list as it is and queues no write.
NoEffect(w) == w.State = State /\ w.jobs = jobs

\* An error is the response of call h.
Refused(w, h) ==
  w.response.status \in {400, 404} /\ w.response.kind = "error"
    /\ w.reqs[h].pc = "idle"

\* What C13 says of the requests that are refused, in a state where pre holds
\* at their arrival: the add arrives with no effect, its body with an amount
\* above the maximum or for an unknown id is refused with no effect, and the
\* delete of an unknown id is refused with no effect.
RefusalsHaveNoEffect(pre) ==
  /\ pre => \A h \in FreeSlots :
       /\ \A id \in TargetIds : NoEffect(Enter(World, h, "add", id))
       /\ NoEffect(Enter(World, h, "delete", UnknownId))
       /\ Refused(Enter(World, h, "delete", UnknownId), h)
  /\ \A h \in Handlers : reqs[h].pc = "body" /\ reqs[h].kind = "add" =>
       \A a \in Amounts :
         (a.t = "huge" \/ ~HasTask(State.tasks, reqs[h].id)) =>
           /\ NoEffect(AddToHopper(World, h, a))
           /\ Refused(AddToHopper(World, h, a), h)

C14_NormalizerSafe ==
  \A i \in 1..Len(probe.results) :
    /\ probe.results[i].id # <<>>
    /\ probe.results[i].name # <<>>
    /\ Trim(probe.results[i].name) = probe.results[i].name
    /\ probe.results[i].hopper.t = "num" /\ probe.results[i].hopper.n >= 0
    /\ probe.results[i].streak.n >= 0
    /\ WellFormed(probe.results[i].dayKey)
    /\ probe.results[i].securedToday \in BOOLEAN

\* The key is the key of a calendar date (as dateKeyFromUTCDate writes them):
\* "2024-02-30" has the form of a key and is none.
RealDate(key) ==
  WellFormed(key) /\ dateKeyFromUTCDate(DateUTC(key[1], key[2], key[3])) = key

\* C15 as stated: right after a rollover pass every task's dayKey does not
\* exceed the current local day, and equals it, whatever it was before.
C15_DayKeyIsToday ==
  Passes >= 1 =>
    \A i \in 1..Len(probe.input) :
      /\ ~KeyGreater(probe.results[1].tasks[i].dayKey, localDateKey)
      /\ probe.results[1].tasks[i].dayKey = localDateKey

\* C15, amended: right after a rollover pass no task's dayKey exceeds the
\* current local day, and every task whose dayKey was a calendar date before
\* the pass (earlier than today, today, or later than today) has today's.
C15_DayKeyNotAhead ==
  Passes >= 1 =>
    \A i \in 1..Len(probe.input) :
      /\ ~KeyGreater(probe.results[1].tasks[i].dayKey, localDateKey)
      /\ RealDate(probe.input[i].dayKey)
           => probe.results[1].tasks[i].dayKey = localDateKey

\* A task whose dayKey was a date after today, after the pass.
C15_Witness ==
  /\ Passes >= 1
  /\ Len(probe.input) >= 1
  /\ RealDate(probe.input[1].dayKey)
  /\ KeyGreater(probe.input[1].dayKey, localDateKey)
  /\ probe.results[1].tasks[1].dayKey = localDateKey

\* No call of handleApi is in flight.
NoCallInFlight == \A h \in Handlers : reqs[h].pc = "idle"

\* C16: when the local day has changed and the ticker has had its period
\* (its lastDayKey is the current day's key), with no request in flight and
\* none arriving, every task of the registry has the current day as dayKey.
C16_TickerCatchesUp ==
  (mainPc = "listening" /\ lastDayKey = localDateKey /\ NoCallInFlight)
    => UpToDate(State.tasks, now)

----------------------------------------------------------------------------
(* One add on its own: a task of today, the body of the request, the save *)

Micro == Resolution \div (10 ^ ROUND_DIGITS)

AddHoppers ==
  {0, Half, DAILY_THRESHOLD - Micro, DAILY_THRESHOLD, 5 * Half}
AddTasks ==
  [id : {"a"}, hopper : AddHoppers, streak : {0, 2},
   dayKey : {dateKeyFromUTCDate(StartDay)}, securedToday : BOOLEAN,
   lastSecuredReason : {"null"}]

\* The amounts of the body: finite ones, of either sign, down to parts of
\* 1e-6; one that is not finite; one above 1_000_000.
AddAmounts ==
  {[t |-> "num", v |-> n] :
     n \in {0, Micro, (4 * Micro) \div 10, (6 * Micro) \div 10, Half,
            DAILY_THRESHOLD, -Half, -DAILY_THRESHOLD}}
    \cup {BadAmount, [t |-> "huge", v |-> 0]}

\* The call of add stands at await readJson(req), the server at rest.
InitAdd ==
  /\ now = StartDay
  /\ \E t \in AddTasks :
       /\ State = [backgroundUrl |-> "null", tasks |-> <<t>>]
       /\ disk = File(State)
       /\ probe = [input |-> <<t>>, results |-> <<>>]
  /\ saveChain = 0
  /\ jobs = <<>>
  /\ writeLog = <<>>
  /\ tmp = Absent
  /\ mainPc = "listening"
  /\ mainWait = 0
  /\ lastDayKey = localDateKey
  /\ reqs = [h \in Handlers |->
               IF h = 1 THEN [Idle EXCEPT !.kind = "add", !.pc = "body", !.id = "a"]
               ELSE Idle]
  /\ response = NoResponse
  /\ securedOn = {}
  /\ resecured = FALSE
  /\ arrived = 1
  /\ moves = 0
  /\ limits = [requests |-> 1, moves |-> 0]

\* await readJson(req) ends with the amount, which is kept for the record.
AddBody(h, amount) ==
  /\ reqs[h].pc = "body"
  /\ Commit(AfterBody(World, h, amount))
  /\ probe' = [probe EXCEPT !.results = Append(@, amount)]
  /\ UNCHANGED <<now, mainPc, mainWait, lastDayKey, arrived, moves, limits>>

NextAdd ==
  \/ \E h \in Handlers, amount \in AddAmounts : AddBody(h, amount)
  \/ \E h \in Handlers : SaveAwaited(h)
  \/ \E n \in 1..Len(jobs) : WriteTmpOk(n)
  \/ \E n \in 1..Len(jobs) : RenameOk(n)

SpecAdd == InitAdd /\ [][NextAdd]_vars

\* The add of a finite amount to the task has been made.
Added == probe.results # <<>> /\ probe.results[1].t = "num"
\* The call has answered.
Answered == Added /\ reqs[1].pc = "idle"

\* What the call reports as secured: the value it holds, then the response's.
ReportedSecured == IF Answered THEN response.secured ELSE reqs[1].secured

\* The rest of C17, for a new hopper of sum: secured is reported exactly when
\* the task was not secured before and sum reaches the threshold; then the
\* streak is one more, securedToday is true and the reason is "add";
\* otherwise streak, securedToday and reason are as before.
SecuringFollows(sum) ==
  LET old == probe.input[1]
      new == State.tasks[1]
  IN  /\ ReportedSecured <=> (~old.securedToday /\ sum >= DAILY_THRESHOLD)
      /\ Answered => response.status = 200 /\ response.tasks = <<new>>
      /\ IF ReportedSecured
         THEN /\ new.streak = old.streak + 1
              /\ new.securedToday
              /\ new.lastSecuredReason = "add"
         ELSE /\ new.streak = old.streak
              /\ new.securedToday = old.securedToday
              /\ new.lastSecuredReason = old.lastSecuredReason

\* C17 as stated: the add sets the hopper to the old hopper plus the amount,
\* and secures exactly when the task was not secured and that sum is at or
\* above 1.0.
C17_AddSecures ==
  Added =>
    /\ State.tasks[1].hopper = probe.input[1].hopper + probe.results[1].v
    /\ SecuringFollows(probe.input[1].hopper + probe.results[1].v)

\* C17, amended: the add sets the hopper to the old hopper plus the amount
\* rounded to six decimals (a half going up), and secures exactly when the
\* task was not secured and that rounded hopper is at or above 1.0.
C17_AddSecuresOnRounded ==
  Added =>
    /\ State.tasks[1].hopper
         = roundTo(probe.input[1].hopper + probe.results[1].v)
    /\ SecuringFollows(roundTo(probe.input[1].hopper + probe.results[1].v))

\* The call has answered secured = true for an add of 0.0000006 to a hopper
\* of 0.999999.
C17_Witness ==
  /\ Answered
  /\ response.secured
  /\ probe.input[1].hopper = DAILY_THRESHOLD - Micro
  /\ probe.results[1].v = (6 * Micro) \div 10

\* Task i had a well-formed dayKey one day or more before today, and a pass
\* has run.
BehindCase(i) ==
  /\ Passes >= 1
  /\ Len(probe.input) >= i
  /\ WellFormed(probe.input[i].dayKey)
  /\ ~KeyGreater(probe.input[i].dayKey, localDateKey)
  /\ DaysStale(i) >= 1

\* The loop body applied k times in sequence, each time to the task the
\* previous application left.
RECURSIVE Iterated(_, _)
Iterated(task, k) == IF k = 0 THEN task ELSE RollOneDay(Iterated(task, k - 1))

AheadCase(i) ==
  /\ Passes >= 1
  /\ Len(probe.input) >= i
  /\ WellFormed(probe.input[i].dayKey)
  /\ KeyGreater(probe.input[i].dayKey, localDateKey)

\* C20: a task whose dayKey is later than today is left by the advance with
\* dayKey today and securedToday false, a change reported, no day rolled (no
\* day key secured, streak as before) and the hopper as before; the pass
\* leaves it so too (a negative hopper apart, which the pass sets to 0 after
\* the advance).
C20_BackwardClockClamp ==
  \A i \in 1..2 : AheadCase(i) =>
    LET in  == probe.input[i]
        adv == processTaskToToday(in, localDateKey)
        out == probe.results[1].tasks[i]
    IN  /\ adv.task = [in EXCEPT !.dayKey = localDateKey,
                                 !.securedToday = FALSE]
        /\ adv.changed
        /\ adv.secured = <<>>
        /\ out = [adv.task EXCEPT !.hopper = Max(0, @)]
        /\ probe.results[1].changed
        /\ probe.results[1].secured[i] = <<>>

\* A secured task of streak 2 and hopper 3.5, its dayKey two days ahead of
\* today: the pass has left it unsecured on today with streak 2, hopper 3.5.
C20_Witness ==
  /\ AheadCase(1)
  /\ DaysStale(1) = -2
  /\ probe.input[1].securedToday
  /\ probe.input[1].streak = 2
  /\ probe.input[1].hopper = 7 * Half
  /\ probe.results[1].tasks[1]
       = [probe.input[1] EXCEPT !.dayKey = localDateKey,
                                !.securedToday = FALSE]

\* The task of the registry is secured on the current local day.
SecuredNow(t) == t.securedToday /\ t.dayKey = localDateKey

\* The step in which call h adds to the task of that id.
AddsTo(h, id) ==
  /\ reqs[h].kind = "add"
  /\ reqs[h].pc = "body"
  /\ reqs'[h].pc = "save"
  /\ reqs[h].id = id

\* C19: in every step that leaves the day unchanged (an add of any accepted
\* amount, a rollover pass, any other step), a task that is secured on the
\* current day and stays in the registry keeps its streak and its
\* securedToday, and an add to it reports secured = false.
C19_SecuredStaysSecured ==
  [][now' = now =>
       \A i \in 1..Len(State.tasks) :
         SecuredNow(State.tasks[i]) /\ HasTask(State'.tasks, State.tasks[i].id)
           => LET t == State.tasks[i]
                  u == State'.tasks[IndexOf(State'.tasks, t.id)]
              IN  /\ u.streak = t.streak
                  /\ u.securedToday
                  /\ u.dayKey = t.dayKey
                  /\ u.lastSecuredReason = t.lastSecuredReason
                  /\ \A h \in Handlers :
                       AddsTo(h, t.id) => ~reqs'[h].secured]_vars

\* An add of a negative amount has taken the hopper of a task secured today
\* below the threshold: the call reports secured = false and the task it
\* holds is still secured.
C19_Witness ==
  \E h \in Handlers :
    /\ reqs[h].kind = "add"
    /\ reqs[h].pc = "save"
    /\ ~reqs[h].secured
    /\ SecuredNow(reqs[h].held)
    /\ reqs[h].held.streak >= 1
    /\ reqs[h].held.hopper < DAILY_THRESHOLD
    /\ HasTask(State.tasks, reqs[h].held.id)
    /\ TaskObject(World, h) = reqs[h].held

----------------------------------------------------------------------------
(* Adds to one task in flight together: a registry of today, the server   *)
(* listening, the day unchanged                                           *)

MaxConcRequests == 3

ConcTasks ==
  [id : {"a"}, hopper : {0, Half}, streak : {1},
   dayKey : {dateKeyFromUTCDate(StartDay)}, securedToday : BOOLEAN,
   lastSecuredReason : {"null"}]
OtherTask ==
  [id |-> "b", hopper |-> 0, streak |-> 0,
   dayKey |-> dateKeyFromUTCDate(StartDay), securedToday |-> FALSE,
   lastSecuredReason |-> "null"]

ConcAmounts ==
  {[t |-> "num", v |-> DAILY_THRESHOLD], [t |-> "num", v |-> -DAILY_THRESHOLD],
   [t |-> "num", v |-> Half], BadAmount, [t |-> "huge", v |-> 0]}

\* The server listens with every task on today; the ticker has seen today,
\* or has yet to fire for it (a request's pass rolled the registry first).
InitConc ==
  /\ now = StartDay
  /\ \E t \in ConcTasks :
       /\ State = [backgroundUrl |-> "null", tasks |-> <<t, OtherTask>>]
       /\ disk = File(State)
       /\ probe = [input |-> <<t, OtherTask>>, results |-> <<>>]
  /\ saveChain = 0
  /\ jobs = <<>>
  /\ writeLog = <<>>
  /\ tmp = Absent
  /\ mainPc = "listening"
  /\ mainWait = 0
  /\ lastDayKey \in {localDateKey, dateKeyFromUTCDate(StartDay - 1)}
  /\ reqs = [h \in Handlers |-> Idle]
  /\ response = NoResponse
  /\ securedOn = {}
  /\ resecured = FALSE
  /\ arrived = 0
  /\ moves = 0
  /\ limits = [requests |-> MaxConcRequests, moves |-> 0]

NextConc ==
  \/ \E h \in Handlers : Arrive(h, "add", "a")
  \/ \E h \in Handlers : Arrive(h, "delete", "b")
  \/ \E h \in Handlers, amount \in ConcAmounts : AddBody(h, amount)
  \/ \E h \in Handlers : Unlinked(h)
  \/ \E h \in Handlers : SaveAwaited(h)
  \/ \E n \in 1..Len(jobs) : WriteTmpOk(n)
  \/ \E n \in 1..Len(jobs) : RenameOk(n)
  \/ TickerFire

SpecConc == InitConc /\ [][NextConc]_vars

\* The sum of the amounts of a sequence of bodies that the handler applies
\* as numbers (one above 1_000_000 is refused).
RECURSIVE SumOf(_)
SumOf(amounts) ==
  IF amounts = <<>> THEN 0
  ELSE (IF Head(amounts).t = "num" THEN Head(amounts).v ELSE 0)
         + SumOf(Tail(amounts))

\* Every body read so far held a finite amount, or one above the maximum.
AllFinite == \A k \in 1..Len(probe.results) : probe.results[k].t # "nan"

\* C21: with adds to one task, rollover passes, the ticker and the deletion
\* of another task interleaved in any order and the day unchanged, the task's
\* hopper is its initial hopper plus the sum of the accepted amounts, and its
\* streak has grown by at most 1.
C21_NoLostUpdate ==
  AllFinite =>
    LET t == State.tasks[IndexOf(State.tasks, "a")]
    IN  /\ t.hopper = probe.input[1].hopper + SumOf(probe.results)
        /\ t.streak <= probe.input[1].streak + 1

\* C22: after any sequence of creations, adds, deletions, rollover passes and
\* day changes, forward or backward, every task of the registry that has
\* securedToday = true has streak >= 1, and every streak is a non-negative
\* integer.
C22_SecuredHasStreak ==
  \A i \in 1..Len(State.tasks) :
    /\ State.tasks[i].streak \in Nat
    /\ State.tasks[i].securedToday => State.tasks[i].streak >= 1

\* The registry was empty at the start; a task was created in it and an add
\* has secured it, with a change of the day on the way.
C22_Witness ==
  /\ Len(State.tasks) = 1
  /\ State.tasks[1].id = IdNames[1]
  /\ State.tasks[1].securedToday
  /\ State.tasks[1].streak = 1
  /\ State.tasks[1].lastSecuredReason = "add"
  /\ moves = 1
  /\ now # StartDay

=============================================================================
